---- MODULE Spec2Model ----
(***************************************************************************)
(* Model of the data-access layer of infonow_sequelize:                    *)
(*   - SequelizeModel (src/models/SubjectiveAttempt.ts, lines 151-355):    *)
(*     the attribute lists of a model and the safe-query wrappers that     *)
(*     rewrite an options object before delegating to the ORM;             *)
(*   - the migration that adds / removes the column Chats.type             *)
(*     (src/migrations/20210521101108-add_column_in_chat.js).              *)
(*                                                                         *)
(* JavaScript values are tagged records:                                   *)
(*   [t |-> "undefined"]                 undefined                         *)
(*   [t |-> "class", name |-> n]         a model class                     *)
(*   [t |-> "obj", f1 |-> v1, ...]       an object with own fields f1...   *)
(*   [t |-> "arr", items |-> <<...>>]    an array                          *)
(***************************************************************************)
EXTENDS Integers, Sequences, FiniteSets, TLC

VARIABLES
    rawAttributes,  \* class name -> declared columns (Model.rawAttributes)
    returned,       \* results of the attribute getters called so far
    pc,             \* position of the safe-query call in progress
    method,         \* ORM method the call in progress delegates to
    self,           \* class the safe-query method was called on (this)
    policy,         \* attributeTypes of the call in progress
    options,        \* the caller's options object, rewritten in place
    supplied,       \* copy of options as the caller supplied them
    opts,           \* loop variable of getAttributesDeep
    delivered,      \* what the ORM method was invoked with
    outcome,        \* how the call in progress ended
    calls,          \* number of completed safe-query calls
    schema,         \* columns of table Chats
    preSchema,      \* columns of table Chats before the last up
    phase           \* state of the migration as the runner records it

vars == <<rawAttributes, returned, pc, method, self, policy, options,
          supplied, opts, delivered, outcome, calls, schema, preSchema, phase>>

attrVars == <<rawAttributes, returned>>
callVars == <<pc, method, self, policy, options, supplied, opts, delivered,
              outcome, calls>>
migrationVars == <<schema, preSchema, phase>>

(***************************************************************************)
(* Bounds of the model.                                                    *)
(***************************************************************************)
\* number of include entries in an options object supplied by a caller
MaxNodes == 2
\* number of safe-query calls made with one options object
MaxCalls == 2
\* number of columns of a model in the attribute specification
MaxCols == 3
\* number of columns of table Chats before the migration
MaxSchemaCols == 3

(***************************************************************************)
(* JavaScript values.                                                      *)
(***************************************************************************)
Undefined == [t |-> "undefined"]

Class(n) == [t |-> "class", name |-> n]

Arr(s) == [t |-> "arr", items |-> s]

Truthy(v) == v.t # "undefined"

\* v[f] for an own field f of an object, undefined otherwise
Field(v, f) == IF v.t = "obj" /\ f \in DOMAIN v THEN v[f] ELSE Undefined

\* the object o after o[f] = v
SetField(o, f, v) == [g \in DOMAIN o \cup {f} |-> IF g = f THEN v ELSE o[g]]

\* the object o without its field f
DropField(o, f) == [g \in DOMAIN o \ {f} |-> o[g]]

Range(s) == {s[i] : i \in 1..Len(s)}

(***************************************************************************)
(* SequelizeAttributes and the declared columns of the models.             *)
(***************************************************************************)
WithIndexes == "WithIndexes"

WithoutIndexes == "WithoutIndexes"

SequelizeAttributes == {WithIndexes, WithoutIndexes}

Col(n, pk, ref) == [name |-> n, primaryKey |-> pk, references |-> ref]

\* columns of SubjectiveAttempt, in declaration order
SubjectiveAttemptColumns ==
    << Col("attemptId", TRUE, TRUE), Col("QuestionId", TRUE, TRUE),
       Col("obtainedMarks", FALSE, FALSE), Col("answerText", FALSE, FALSE),
       Col("createdAt", FALSE, FALSE), Col("updatedAt", FALSE, FALSE) >>

\* columns of Meeting, in declaration order
MeetingColumns ==
    << Col("_meetingId", TRUE, FALSE), Col("meetingId", FALSE, FALSE),
       Col("createdBy", FALSE, TRUE), Col("status", FALSE, FALSE),
       Col("scheduledAt", FALSE, FALSE), Col("createdAt", FALSE, FALSE),
       Col("updatedAt", FALSE, FALSE) >>

\* columns of Role, in declaration order
RoleColumns ==
    << Col("_roleId", TRUE, FALSE), Col("roleId", FALSE, FALSE),
       Col("roleName", FALSE, FALSE), Col("createdAt", FALSE, FALSE),
       Col("updatedAt", FALSE, FALSE) >>

\* the classes that extend SequelizeModel, with their rawAttributes
SafeModels ==
    [n \in {"SubjectiveAttempt", "Meeting", "Role"} |->
        CASE n = "SubjectiveAttempt" -> SubjectiveAttemptColumns
          [] n = "Meeting" -> MeetingColumns
          [] n = "Role" -> RoleColumns]

\* a model class that does not extend SequelizeModel (sequelize-typescript's
\* Model): it has no static filterAttributes
PlainModel == "Model"

(***************************************************************************)
(* The attribute lists of a class: getAttributesCore and its callers.      *)
(***************************************************************************)
isIndexOnlyPrimaryKey(column) == column.primaryKey

isIndex(column) == column.primaryKey \/ column.references

RECURSIVE getAttributesCoreOverlapping(_, _)
getAttributesCoreOverlapping(raw, indexes) ==
    IF raw = <<>> THEN <<>>
    ELSE LET key == Head(raw)
             push == \/ indexes = "undefined"
                     \/ indexes = "true" /\ isIndex(key)
                     \/ indexes = "false"
         IN  (IF push THEN <<key.name>> ELSE <<>>)
                 \o getAttributesCoreOverlapping(Tail(raw), indexes)

\* indexes is "undefined", "true" or "false"; raw is this.rawAttributes,
\* enumerated in declaration order
RECURSIVE getAttributesCore(_, _)
getAttributesCore(raw, indexes) ==
    IF raw = <<>> THEN <<>>
    ELSE LET key == Head(raw)
             push == \/ indexes = "undefined"
                     \/ indexes = "true" /\ isIndex(key)
                     \/ indexes = "false" /\ ~isIndex(key)
         IN  (IF push THEN <<key.name>> ELSE <<>>)
                 \o getAttributesCore(Tail(raw), indexes)

getNonIndexes(cls) == getAttributesCore(rawAttributes[cls], "false")

getIndexes(cls) == getAttributesCore(rawAttributes[cls], "true")

getAttributes(cls) == getAttributesCore(rawAttributes[cls], "undefined")

filterAttributesSwapped(cls, attributeTypes) ==
    IF attributeTypes = WithIndexes THEN getNonIndexes(cls)
    ELSE getAttributes(cls)

filterAttributes(cls, attributeTypes) ==
    IF attributeTypes = WithIndexes THEN getAttributes(cls)
    ELSE getNonIndexes(cls)

(***************************************************************************)
(* Values of the variables a specification does not use.                   *)
(***************************************************************************)
NotCalled == [t |-> "notCalled"]

NoGetterCalled ==
    [getIndexes |-> NotCalled, getNonIndexes |-> NotCalled,
     getAttributes |-> NotCalled,
     filterAttributes |-> [p \in SequelizeAttributes |-> NotCalled]]

NoCall ==
    /\ pc = "off"
    /\ method = "none"
    /\ self = "none"
    /\ policy = "none"
    /\ options = Undefined
    /\ supplied = Undefined
    /\ opts = Undefined
    /\ delivered = NotCalled
    /\ outcome = "none"
    /\ calls = 0

NoMigration ==
    /\ schema = <<>>
    /\ preSchema = <<>>
    /\ phase = "off"

(***************************************************************************)
(* Specification of the attribute getters: any model, that is any list of  *)
(* declared columns with any primaryKey / references flags.                *)
(***************************************************************************)
ColumnNames == {"id", "ownerId", "title", "createdAt"}

Columns == {Col(n, pk, ref) : n \in ColumnNames, pk \in BOOLEAN, ref \in BOOLEAN}

\* rawAttributes is an object: its keys are distinct
ColumnLists ==
    {s \in UNION {[1..n -> Columns] : n \in 0..MaxCols} :
        \A i, j \in 1..Len(s) : s[i].name = s[j].name => i = j}

InitAttrs ==
    /\ rawAttributes \in [{"Entity"} -> ColumnLists]
    /\ returned = NoGetterCalled
    /\ NoCall
    /\ NoMigration

CallGetIndexes ==
    /\ \E cls \in DOMAIN rawAttributes :
          returned' = [returned EXCEPT !.getIndexes = Arr(getIndexes(cls))]
    /\ UNCHANGED <<rawAttributes, callVars, migrationVars>>

CallGetNonIndexes ==
    /\ \E cls \in DOMAIN rawAttributes :
          returned' = [returned EXCEPT !.getNonIndexes = Arr(getNonIndexes(cls))]
    /\ UNCHANGED <<rawAttributes, callVars, migrationVars>>

CallGetAttributes ==
    /\ \E cls \in DOMAIN rawAttributes :
          returned' = [returned EXCEPT !.getAttributes = Arr(getAttributes(cls))]
    /\ UNCHANGED <<rawAttributes, callVars, migrationVars>>

CallFilterAttributes ==
    /\ \E cls \in DOMAIN rawAttributes, p \in SequelizeAttributes :
          returned' = [returned EXCEPT
                          !.filterAttributes[p] = Arr(filterAttributes(cls, p))]
    /\ UNCHANGED <<rawAttributes, callVars, migrationVars>>

NextAttrs ==
    \/ CallGetIndexes
    \/ CallGetNonIndexes
    \/ CallGetAttributes
    \/ CallFilterAttributes

SpecAttrs == InitAttrs /\ [][NextAttrs]_vars

\* the declared columns of the single class of SpecAttrs
Declared == rawAttributes["Entity"]

KeyColumns == {Declared[i].name : i \in {j \in 1..Len(Declared) :
                  Declared[j].primaryKey \/ Declared[j].references}}

NoDuplicates(s) == \A i, j \in 1..Len(s) : s[i] = s[j] => i = j

\* C6: once getIndexes, getNonIndexes and getAttributes have returned, the
\* columns of getIndexes and getNonIndexes together are exactly those of
\* getAttributes, no column is in both, and no list names a column twice.
C6_Partition ==
    (/\ returned.getIndexes # NotCalled
     /\ returned.getNonIndexes # NotCalled
     /\ returned.getAttributes # NotCalled)
    => LET idx == returned.getIndexes.items
           non == returned.getNonIndexes.items
           all == returned.getAttributes.items
       IN  /\ Range(idx) \cup Range(non) = Range(all)
           /\ Range(idx) \cap Range(non) = {}
           /\ NoDuplicates(idx) /\ NoDuplicates(non) /\ NoDuplicates(all)
           /\ Len(idx) + Len(non) = Len(all)

C6_Witness ==
    /\ returned.getIndexes # NotCalled
    /\ returned.getNonIndexes # NotCalled
    /\ returned.getAttributes # NotCalled
    /\ Len(returned.getIndexes.items) >= 1
    /\ Len(returned.getNonIndexes.items) >= 1

\* C7: under WithoutIndexes filterAttributes returns exactly the declared
\* columns that are neither primary key nor carry a reference, in declaration
\* order; under WithIndexes it returns all declared columns.
C7_PolicySelection ==
    /\ returned.filterAttributes[WithoutIndexes] # NotCalled
       => LET list == returned.filterAttributes[WithoutIndexes].items
          IN  /\ Range(list) \cap KeyColumns = {}
              /\ Range(list) = {Declared[i].name : i \in 1..Len(Declared)} \ KeyColumns
              /\ NoDuplicates(list)
    /\ returned.filterAttributes[WithIndexes] # NotCalled
       => returned.filterAttributes[WithIndexes].items
              = [i \in 1..Len(Declared) |-> Declared[i].name]

C7_Witness ==
    /\ returned.filterAttributes[WithoutIndexes] # NotCalled
    /\ returned.filterAttributes[WithIndexes] # NotCalled
    /\ KeyColumns # {}
    /\ Len(returned.filterAttributes[WithoutIndexes].items) >= 1
    /\ \E i \in 1..Len(Declared) :
          ~Declared[i].primaryKey /\ Declared[i].references

(***************************************************************************)
(* The safe-query wrapper: addAttributesToInclude and getAttributesDeep.   *)
(***************************************************************************)
\* the TypeError of calling filterAttributes on a value that has none
TypeError == [t |-> "TypeError"]

\* v.filterAttributes is a function: v is a class that extends SequelizeModel
HasFilterAttributes(v) == v.t = "class" /\ v.name \in DOMAIN rawAttributes

addAttributesToInclude(attributeTypes, include) ==
    IF /\ Truthy(include)
       /\ Truthy(Field(include, "model")) \/ HasFilterAttributes(include)
    THEN LET _include == IF Truthy(Field(include, "model"))
                         THEN include.model ELSE include
         IN  IF HasFilterAttributes(_include)
             THEN [t |-> "obj", model |-> _include,
                   attributes |-> Arr(filterAttributes(_include.name, attributeTypes))]
             ELSE TypeError
    ELSE include

\* the new value of opts.include (lines 328-330); a TypeError thrown by the
\* callback of map, or by the single call, leaves opts.include unassigned
rewriteInclude(attributeTypes, include) ==
    IF include.t = "arr"
    THEN LET mapped == [i \in 1..Len(include.items) |->
                           addAttributesToInclude(attributeTypes, include.items[i])]
         IN  IF \E i \in 1..Len(mapped) : mapped[i] = TypeError
             THEN TypeError ELSE Arr(mapped)
    ELSE addAttributesToInclude(attributeTypes, include)

injectAttributesDefaulted(cls, attributeTypes, o) ==
    SetField(IF Truthy(o) THEN o ELSE [t |-> "obj"], "attributes",
             Arr(filterAttributes(cls, attributeTypes)))

\* if (opts) opts.attributes = this.filterAttributes(attributeTypes)
injectAttributes(cls, attributeTypes, o) ==
    IF Truthy(o)
    THEN SetField(o, "attributes", Arr(filterAttributes(cls, attributeTypes)))
    ELSE o

\* opts is a reference into the options object: the object reached from
\* options by following the field include hops times
Ref(k) == [t |-> "ref", hops |-> k]

RECURSIVE At(_, _)
At(o, k) == IF k = 0 THEN o ELSE At(Field(o, "include"), k - 1)

\* options after opts.include = v, where opts is k hops below o
RECURSIVE SetIncludeAt(_, _, _)
SetIncludeAt(o, k, v) ==
    IF k = 0 THEN SetField(o, "include", v)
    ELSE SetField(o, "include", SetIncludeAt(o.include, k - 1, v))

(***************************************************************************)
(* The options objects a caller supplies.                                  *)
(***************************************************************************)
\* include entries that are model classes
IncludeClasses == {Class("Role"), Class("SubjectiveAttempt"), Class(PlainModel)}

\* include descriptors, before a nested include is added
IncludeDescriptors ==
    { [t |-> "obj", model |-> Class("Role"), where |-> "w", as |-> "role",
       required |-> TRUE],
      [t |-> "obj", model |-> Class("Role")],
      [t |-> "obj", model |-> Class(PlainModel)],
      [t |-> "obj", association |-> "user"] }

RECURSIVE Entries(_), Includes(_), Items(_)
\* include entries made of at most n entries (n >= 1)
Entries(n) ==
    IncludeClasses \cup IncludeDescriptors \cup
    {SetField(d, "include", inc) : d \in IncludeDescriptors,
                                   inc \in (IF n > 1 THEN Includes(n - 1) ELSE {})}

\* lists of include entries made of at most n entries in all
Items(n) ==
    {<<>>} \cup
    UNION {{<<e>> \o rest : e \in Entries(k) \ (IF k > 1 THEN Entries(k - 1) ELSE {}),
                            rest \in Items(n - k)} : k \in 1..n}

\* values of an include field: a single entry or a collection
Includes(n) == (IF n > 0 THEN Entries(n) ELSE {}) \cup {Arr(s) : s \in Items(n)}

\* the fields of an options object other than include
TopLevels == {[t |-> "obj"], [t |-> "obj", where |-> "w", limit |-> 1]}

FreshOptions ==
    {Undefined} \cup TopLevels \cup
    {SetField(o, "include", inc) : o \in TopLevels, inc \in Includes(MaxNodes)}

\* a caller passes a fresh options object, or the object of its previous call
CallerOptions == IF calls = 0 THEN FreshOptions ELSE {options}

QueriedModels == {"Meeting", "SubjectiveAttempt"}

\* the attributeTypes argument; undefined selects the parameter's default
PolicyArguments == SequelizeAttributes \cup {"undefined"}

(***************************************************************************)
(* The safe-query methods.                                                 *)
(***************************************************************************)
Init ==
    /\ rawAttributes = SafeModels
    /\ returned = NoGetterCalled
    /\ pc = "idle"
    /\ method = "none"
    /\ self = "none"
    /\ policy = "none"
    /\ options = Undefined
    /\ supplied = Undefined
    /\ opts = Undefined
    /\ delivered = NotCalled
    /\ outcome = "none"
    /\ calls = 0
    /\ NoMigration

\* entry of a safe-query method up to the loop of getAttributesDeep
\* (lines 320-323); m is the ORM method it delegates to. A caller makes one
\* call at a time with its options object (pc = "idle"), MaxCalls in all.
Enter(m, cls, attributeTypes, o) ==
    LET p == IF attributeTypes = "undefined" THEN WithIndexes ELSE attributeTypes
    IN  /\ method' = m
        /\ self' = cls
        /\ policy' = p
        /\ supplied' = o
        /\ options' = injectAttributes(cls, p, o)
        /\ opts' = IF Truthy(o) THEN Ref(0) ELSE Undefined
        /\ delivered' = NotCalled
        /\ outcome' = "none"
        /\ pc' = "while"
        /\ UNCHANGED <<attrVars, calls, migrationVars>>

findAllSafe ==
    /\ pc = "idle"
    /\ calls < MaxCalls
    /\ \E cls \in QueriedModels, p \in PolicyArguments, o \in CallerOptions :
          Enter("findAll", cls, p, o)

createSafe ==
    /\ pc = "idle"
    /\ calls < MaxCalls
    /\ \E cls \in QueriedModels, p \in PolicyArguments, o \in CallerOptions :
          Enter("create", cls, p, o)

findOneSafe ==
    /\ pc = "idle"
    /\ calls < MaxCalls
    /\ \E cls \in QueriedModels, p \in PolicyArguments, o \in CallerOptions :
          Enter("findOne", cls, p, o)

findByPkSafe ==
    /\ pc = "idle"
    /\ calls < MaxCalls
    /\ \E cls \in QueriedModels, p \in PolicyArguments, o \in CallerOptions :
          Enter("findByPk", cls, p, o)

findOrCreateSafe ==
    /\ pc = "idle"
    /\ calls < MaxCalls
    /\ \E cls \in QueriedModels, p \in PolicyArguments, o \in CallerOptions :
          Enter("findOrCreate", cls, p, o)

\* one iteration of while (opts) { ... } (lines 325-334)
getAttributesDeepLoop ==
    /\ pc = "while"
    /\ Truthy(opts)
    /\ LET cur == At(options, opts.hops)
           include == Field(cur, "include")
           rewritten == rewriteInclude(policy, include)
       IN  IF ~Truthy(include)
           THEN /\ opts' = Undefined
                /\ UNCHANGED <<options, pc, outcome>>
           ELSE IF rewritten = TypeError
           THEN /\ pc' = "returned"
                /\ outcome' = "TypeError"
                /\ UNCHANGED <<options, opts>>
           ELSE /\ options' = SetIncludeAt(options, opts.hops, rewritten)
                /\ opts' = Ref(opts.hops + 1)
                /\ UNCHANGED <<pc, outcome>>
    /\ UNCHANGED <<attrVars, method, self, policy, supplied, delivered, calls,
                   migrationVars>>

\* the loop has ended: getAttributesDeep returns options and the method
\* invokes the ORM, whose result or failure is the method's
delegate ==
    /\ pc = "while"
    /\ ~Truthy(opts)
    /\ delivered' = [orm |-> method, options |-> options]
    /\ \E o \in {"resolved", "rejected"} : outcome' = o
    /\ pc' = "returned"
    /\ UNCHANGED <<attrVars, method, self, policy, options, supplied, opts,
                   calls, migrationVars>>

\* the caller receives the outcome and keeps its options object
return ==
    /\ pc = "returned"
    /\ pc' = "idle"
    /\ method' = "none"
    /\ self' = "none"
    /\ policy' = "none"
    /\ supplied' = Undefined
    /\ opts' = Undefined
    /\ delivered' = NotCalled
    /\ outcome' = "none"
    /\ calls' = calls + 1
    /\ UNCHANGED <<attrVars, options, migrationVars>>

Next ==
    \/ findAllSafe
    \/ createSafe
    \/ findOneSafe
    \/ findByPkSafe
    \/ findOrCreateSafe
    \/ getAttributesDeepLoop
    \/ delegate
    \/ return

Spec == Init /\ [][Next]_vars

\* getAttributesDeep as a whole, from the loop's position k on: the options
\* object it leaves behind and whether it threw
RECURSIVE getAttributesDeepFrom(_, _, _)
getAttributesDeepFrom(attributeTypes, o, k) ==
    LET include == Field(At(o, k), "include")
        rewritten == rewriteInclude(attributeTypes, include)
    IN  IF ~Truthy(include) THEN [options |-> o, threw |-> FALSE]
        ELSE IF rewritten = TypeError THEN [options |-> o, threw |-> TRUE]
        ELSE getAttributesDeepFrom(attributeTypes,
                                   SetIncludeAt(o, k, rewritten), k + 1)

getAttributesDeep(cls, attributeTypes, o) ==
    IF Truthy(o)
    THEN getAttributesDeepFrom(attributeTypes,
                               injectAttributes(cls, attributeTypes, o), 0)
    ELSE [options |-> o, threw |-> FALSE]

\* the ORM has been invoked by the call in progress
Delegated == pc = "returned" /\ delivered # NotCalled

\* the names of the columns of cls flagged primary key or carrying a reference
KeysOf(cls) ==
    {rawAttributes[cls][i].name : i \in {j \in 1..Len(rawAttributes[cls]) :
        rawAttributes[cls][j].primaryKey \/ rawAttributes[cls][j].references}}

\* v[i] of JavaScript, i counted from 0: an element of an array, undefined
\* on the objects of this model
ElementAt(v, i) ==
    IF v.t = "arr" /\ i + 1 <= Len(v.items) THEN v.items[i + 1] ELSE Undefined

\* the step-wise loop and getAttributesDeep as a whole agree
LoopAgrees ==
    pc = "returned" =>
        LET whole == getAttributesDeep(self, policy, supplied)
        IN  /\ whole.options = options
            /\ whole.threw = (outcome = "TypeError")

(***************************************************************************)
(* Properties of the safe-query wrapper.                                   *)
(***************************************************************************)
\* findAllSafe(WithoutIndexes, { include: ChildModel }) has invoked findAll
C1_Case ==
    /\ Delegated
    /\ method = "findAll"
    /\ policy = WithoutIndexes
    /\ HasFilterAttributes(Field(supplied, "include"))

\* C1 as stated: findAll receives top-level attributes without key columns of
\* the queried model, and include[0].attributes exists and has no key column
\* of the child model.
C1_IncludeZero ==
    C1_Case =>
        LET child == supplied.include.name
            top == Field(delivered.options, "attributes")
            first == ElementAt(Field(delivered.options, "include"), 0)
        IN  /\ Truthy(top)
            /\ Range(top.items) \cap KeysOf(self) = {}
            /\ Truthy(Field(first, "attributes"))
            /\ Range(first.attributes.items) \cap KeysOf(child) = {}

\* C1 amended: findAll receives top-level attributes without key columns of
\* the queried model, and include is the single descriptor
\* { model: ChildModel, attributes } (not a collection, so there is no
\* include[0]) whose attributes exists and has no key column of the child.
C1_SingleDescriptor ==
    C1_Case =>
        LET child == supplied.include.name
            top == Field(delivered.options, "attributes")
            include == Field(delivered.options, "include")
        IN  /\ Truthy(top)
            /\ Range(top.items) \cap KeysOf(self) = {}
            /\ include.t = "obj"
            /\ ElementAt(include, 0) = Undefined
            /\ Field(include, "model") = Class(child)
            /\ Truthy(Field(include, "attributes"))
            /\ Range(include.attributes.items) \cap KeysOf(child) = {}

C1_Witness ==
    /\ C1_Case
    /\ self = "Meeting"
    /\ supplied.include = Class("SubjectiveAttempt")
    /\ Len(delivered.options.include.attributes.items) >= 1

\* the class an include entry names, undefined when it names none
ModelOf(entry) ==
    IF entry.t = "class" THEN entry ELSE Field(entry, "model")

RECURSIVE IncludeKept(_, _, _), EntryKept(_, _, _)
\* the include value got, at every depth, still has every entry of the
\* include value given, each naming a SequelizeModel carrying that model's
\* attribute list under attributeTypes
IncludeKept(attributeTypes, given, got) ==
    IF given.t = "arr"
    THEN /\ got.t = "arr"
         /\ Len(got.items) = Len(given.items)
         /\ \A i \in 1..Len(given.items) :
               EntryKept(attributeTypes, given.items[i], got.items[i])
    ELSE EntryKept(attributeTypes, given, got)

EntryKept(attributeTypes, given, got) ==
    /\ Truthy(got)
    /\ ModelOf(got) = ModelOf(given)
    /\ Field(got, "association") = Field(given, "association")
    /\ HasFilterAttributes(ModelOf(given))
       => Field(got, "attributes")
              = Arr(filterAttributes(ModelOf(given).name, attributeTypes))
    /\ Truthy(Field(given, "include"))
       => /\ Truthy(Field(got, "include"))
          /\ IncludeKept(attributeTypes, given.include, got.include)

\* C2: after getAttributesDeep every include entry of the supplied options,
\* at every depth, is still present in the delivered options and carries
\* attributes equal to its own model's attribute list under the policy.
C2_WholeIncludeTree ==
    (Delegated /\ Truthy(Field(supplied, "include")))
    => /\ Truthy(Field(delivered.options, "include"))
       /\ IncludeKept(policy, supplied.include, delivered.options.include)

\* a value without its attributes fields, at top level and in every include
\* entry; an include entry given as a class M reads as { model: M }
RECURSIVE WithoutAttributes(_)
WithoutAttributes(v) ==
    CASE v.t = "class" -> [t |-> "obj", model |-> v]
      [] v.t = "arr" ->
            Arr([i \in 1..Len(v.items) |-> WithoutAttributes(v.items[i])])
      [] v.t = "obj" ->
            LET bare == DropField(v, "attributes")
            IN  IF "include" \in DOMAIN bare
                THEN SetField(bare, "include", WithoutAttributes(bare.include))
                ELSE bare
      [] OTHER -> v

\* the top level of a value alone: an object without its include field
TopLevelOf(v) ==
    IF v.t = "obj" THEN DropField(DropField(v, "attributes"), "include") ELSE v

\* C3: the options the ORM receives differ from the supplied options only in
\* attributes fields: every other field, at top level and inside each include
\* entry, is unchanged.
C3_OnlyAttributesDiffer ==
    Delegated =>
        /\ delivered.orm = method
        /\ TopLevelOf(delivered.options) = TopLevelOf(supplied)
        /\ WithoutAttributes(Field(delivered.options, "include"))
              = WithoutAttributes(Field(supplied, "include"))

C5_NoWrapperError ==
    pc = "returned" =>
        /\ outcome \in {"resolved", "rejected"}
        /\ delivered # NotCalled

\* C9: the loop of getAttributesDeep descends one include level per
\* iteration, stops where the current level has no include, and is left only
\* into the delegated ORM call.
C9_LoopReachesOrm ==
    [][pc = "while" =>
          /\ (pc' = "while" /\ Truthy(opts'))
                => (Truthy(opts) /\ opts'.hops = opts.hops + 1)
          /\ (Truthy(opts) /\ ~Truthy(Field(At(options, opts.hops), "include")))
                => ~Truthy(opts')
          /\ pc' # "while" => delivered' # NotCalled]_vars

RECURSIVE IncludeCarries(_, _), EntryCarries(_, _)
\* every include entry naming a model that has attribute lists (a class that
\* extends SequelizeModel), at every depth, carries that model's attribute
\* list under attributeTypes
IncludeCarries(attributeTypes, include) ==
    IF include.t = "arr"
    THEN \A i \in 1..Len(include.items) :
            EntryCarries(attributeTypes, include.items[i])
    ELSE EntryCarries(attributeTypes, include)

EntryCarries(attributeTypes, entry) ==
    /\ HasFilterAttributes(ModelOf(entry))
       => Field(entry, "attributes")
             = Arr(filterAttributes(ModelOf(entry).name, attributeTypes))
    /\ Truthy(Field(entry, "include"))
       => IncludeCarries(attributeTypes, entry.include)

\* C10: after each call made with a reused options object the top-level
\* attributes are the called model's list under that call's policy, every
\* include entry naming a model carries that model's list under that call's
\* policy, and rewriting the options once more with the same policy changes
\* nothing.
C10_ReuseCarriesLists ==
    (pc = "returned" /\ Truthy(options))
    => /\ Field(options, "attributes") = Arr(filterAttributes(self, policy))
       /\ Truthy(Field(options, "include"))
          => IncludeCarries(policy, options.include)
       /\ getAttributesDeep(self, policy, options).options = options

(***************************************************************************)
(* The loop of getAttributesDeep ends: with weak fairness of the steps of  *)
(* a call, every call that entered the loop returns.                       *)
(***************************************************************************)
FairSpec ==
    /\ Spec
    /\ WF_vars(getAttributesDeepLoop)
    /\ WF_vars(delegate)
    /\ WF_vars(return)

LoopTerminates == (pc = "while") ~> (pc = "returned")

(***************************************************************************)
(* The migration 20210521101108-add_column_in_chat.                        *)
(***************************************************************************)
Column(n, type, default) == [name |-> n, type |-> type, defaultValue |-> default]

\* columns table Chats may have before the migration
ChatColumns ==
    { Column("_chatId", "INTEGER", "none"), Column("message", "STRING", "none"),
      Column("createdAt", "DATE", "NOW"), Column("type", "STRING", "none"),
      Column("_meetingId", "INTEGER", "none") }

\* the column up adds
TypeColumn == Column("type", "ENUM(ChatTypesEnum)", "chat")

HasColumn(table, n) == \E i \in 1..Len(table) : table[i].name = n

\* queryInterface.addColumn on a table without that column
addColumn(table, column) == Append(table, column)

\* queryInterface.removeColumn
removeColumn(table, n) == SelectSeq(table, LAMBDA c : c.name # n)

InitMigration ==
    /\ schema \in {s \in UNION {[1..n -> ChatColumns] : n \in 0..MaxSchemaCols} :
                      \A i, j \in 1..Len(s) : s[i].name = s[j].name => i = j}
    /\ preSchema = schema
    /\ phase = "pending"
    /\ rawAttributes = SafeModels
    /\ returned = NoGetterCalled
    /\ NoCall

\* the runner runs up on a migration it has not recorded as executed; the
\* database rejects addColumn when the table has a column of that name, and
\* the runner then records nothing
up ==
    /\ phase \in {"pending", "reverted", "failed"}
    /\ IF HasColumn(schema, "type")
       THEN /\ phase' = "failed"
            /\ UNCHANGED <<schema, preSchema>>
       ELSE /\ preSchema' = schema
            /\ schema' = addColumn(schema, TypeColumn)
            /\ phase' = "executed"
    /\ UNCHANGED <<attrVars, callVars>>

downWrongColumn ==
    /\ phase = "executed"
    /\ schema' = removeColumn(schema, "types")
    /\ phase' = "reverted"
    /\ UNCHANGED <<preSchema, attrVars, callVars>>

\* the runner runs down on a migration it has recorded as executed
down ==
    /\ phase = "executed"
    /\ schema' = removeColumn(schema, "type")
    /\ phase' = "reverted"
    /\ UNCHANGED <<preSchema, attrVars, callVars>>

NextMigration ==
    \/ up
    \/ down

SpecMigration == InitMigration /\ [][NextMigration]_vars

\* C8: after up and then down the schema of table Chats is the schema it had
\* before up; between the two it has the column type, enumerated, with
\* default "chat".
C8_RoundTrip ==
    /\ phase = "executed" => schema = preSchema \o <<TypeColumn>>
    /\ phase = "reverted" => schema = preSchema

C8_Witness ==
    /\ phase = "reverted"
    /\ Len(schema) = MaxSchemaCols
    /\ schema = preSchema

====
